---- MODULE Spec2Model ----
(***************************************************************************)
(* Model of the behave lifecycle hooks of examples/environment.py and of   *)
(* the helpers of bdd_isaacsim_exec/utils.py: execution-log accumulation,  *)
(* before_all (config, model graph, defaults), _get_unique_id_str,         *)
(* save_frames and create_video_from_frames.                               *)
(***************************************************************************)
EXTENDS Integers, Sequences, FiniteSets, TLC

VARIABLES
    \* ---- execution log (environment.py hooks) ----
    hookPc,              \* where the runner is: "idle", "feature", "scenario", "step"
    log_data,            \* context.log_data: scenario name -> dict
    scenario,            \* context.scenario.name (set by the runner)
    scenario_start_time, \* context.scenario_start_time
    step_start,          \* context.step_start
    step_debug_info,     \* context.step_debug_info
    isaac_start,         \* wall-clock start kept by before_scenario_isaac
    now,                 \* the clock read by time.process_time()
    cur_step,            \* the step the runner is executing
    executed,            \* steps the runner executed in the current scenario
    scenarios_run,       \* names of the scenarios the runner ran in the feature
    dumped,              \* <<the object after_feature handed to json.dumps>>, <<>> before
    \* ---- before_all (environment.py) ----
    baPc,                \* "start", "parse", "isaac", "exited", "raised"
    ctx,                 \* attributes before_all put on the context
    config,              \* what yaml.safe_load returned
    g,                   \* the ConjunctiveGraph: models parsed into it
    next_model,          \* position of the loop over MODELS
    parse_error,         \* "none", "JSONDecodeError", "OtherError"
    isaac_called,        \* before_all_isaac was called
    \* ---- _get_unique_id_str (utils.py) ----
    idPc,                \* "idle" or "loop" (inside the while True)
    cache,               \* _CACHED_ID_STRS
    id_str,              \* argument id_str
    max_iteration,       \* argument max_iteration
    iter_count,          \* local iter_count
    drawn,               \* candidates drawn and tested by the current call
    returned,            \* strings returned by the successful calls, in order
    outcome,             \* how the last call ended: "none", "returned", "raised"
    cache_at_call,       \* _CACHED_ID_STRS when the current call began
    \* ---- save_frames (utils.py) ----
    poolPc,              \* "idle", "submitting", "returned"
    n_frames,            \* len(frames)
    threads,             \* argument threads (max_workers)
    submitted,           \* frames submitted so far by the for loop
    work_queue,          \* the executor's queue of pending writes
    workers,             \* spawned worker -> "idle" or the frame it writes
    idle_semaphore,      \* the executor's count of workers that went idle
    out_dir,             \* output_dir: file name -> [frame, state]
    \* ---- create_video_from_frames (utils.py) ----
    vidPc,               \* "idle", "saved", "created"
    scen_no,             \* number of the running scenario of the feature
    cur_frames,          \* frames passed to this scenario's save_frames
    frames_dir,          \* frames/<camera>: file name -> frame
    video,               \* frames written to this scenario's video
    had_frames,          \* the .jpg listing was non-empty at the call
    cleanup_frames,      \* argument cleanup_frames of the call
    dir_before,          \* frames/<camera> when create_video_from_frames began
    vid_ret              \* [kind, value]: what create_video_from_frames did

logVars == <<hookPc, log_data, scenario, scenario_start_time, step_start,
             step_debug_info, isaac_start, now, cur_step, executed,
             scenarios_run, dumped>>

baVars == <<baPc, ctx, config, g, next_model, parse_error, isaac_called>>

idVars == <<idPc, cache, id_str, max_iteration, iter_count, drawn, returned,
            outcome, cache_at_call>>

poolVars == <<poolPc, n_frames, threads, submitted, work_queue, workers,
              idle_semaphore, out_dir>>

vidVars == <<vidPc, scen_no, cur_frames, frames_dir, video, had_frames,
             cleanup_frames, dir_before, vid_ret>>

vars == <<logVars, baVars, idVars, poolVars, vidVars>>

notLog == <<baVars, idVars, poolVars, vidVars>>
notBa == <<logVars, idVars, poolVars, vidVars>>
notId == <<logVars, baVars, poolVars, vidVars>>
notPool == <<logVars, baVars, idVars, vidVars>>
notVid == <<logVars, baVars, idVars, poolVars>>

\* ---------------------------------------------------------------- bounds
MaxScenarios == 2
MaxSteps == 2
MaxClock == 2
MaxIteration == 2
RandRange == 2
MaxFrames == 3
MaxThreads == 2
MaxVideoScenarios == 3

\* ------------------------------------------------------- python dict helpers
EmptyDict == [x \in {} |-> x]

DictSet(d, k, v) == [x \in DOMAIN d \cup {k} |-> IF x = k THEN v ELSE d[x]]

NoValue == "unset"

Range(q) == {q[i] : i \in 1..Len(q)}

\* ------------------------------------------------------------- runner inputs
ScenarioNames == {"sA", "sB"}

Steps == { [name |-> "an object", keyword |-> "Given", status |-> "passed"],
           [name |-> "is picked", keyword |-> "When", status |-> "failed"] }

\* time.process_time(): the clock after it advanced by d ticks
Ticks == {d \in 0..1 : now + d <= MaxClock}

\* ------------------------------------------------------------------ hooks
InitLog ==
    /\ hookPc = "idle"
    /\ log_data = EmptyDict
    /\ scenario = NoValue
    /\ scenario_start_time = 0
    /\ step_start = 0
    /\ step_debug_info = EmptyDict
    /\ isaac_start = 0
    /\ now = 0
    /\ cur_step = NoValue
    /\ executed = <<>>
    /\ scenarios_run = <<>>
    /\ dumped = <<>>

\* before_scenario_isaac: keeps the scenario's start for the log
before_scenario_isaac(t) == t

\* after_scenario_isaac: records the remaining log keys of the scenario
after_scenario_isaac(ld, name, start, t) ==
    DictSet(ld, name,
        DictSet(DictSet(DictSet(ld[name], "start_time_unix", start),
                        "end_time_unix", t),
                "behave_exec_time", t - start))

before_feature ==
    /\ hookPc = "idle"
    /\ hookPc' = "feature"
    /\ log_data' = EmptyDict
    /\ scenarios_run' = <<>>
    /\ dumped' = <<>>
    /\ UNCHANGED <<scenario, scenario_start_time, step_start, step_debug_info,
                   isaac_start, now, cur_step, executed>>
    /\ UNCHANGED notLog

NewScenarioEntry == [clauses |-> <<>>]

before_scenario ==
    /\ hookPc = "feature"
    /\ Len(scenarios_run) < MaxScenarios
    /\ \E name \in ScenarioNames, d \in Ticks :
        /\ scenario' = name
        /\ scenarios_run' = Append(scenarios_run, name)
        /\ log_data' = DictSet(log_data, name, NewScenarioEntry)
        /\ now' = now + d
        /\ scenario_start_time' = now'
        /\ isaac_start' = before_scenario_isaac(now')
    /\ hookPc' = "scenario"
    /\ executed' = <<>>
    /\ UNCHANGED <<step_start, step_debug_info, cur_step, dumped>>
    /\ UNCHANGED notLog

RecordExecTime_Skipped(ld, name, t) == ld

RecordExecTime(ld, name, t) ==
    DictSet(ld, name, DictSet(ld[name], "exec_time", t - scenario_start_time))

after_scenario ==
    /\ hookPc = "scenario"
    /\ \E d \in Ticks :
        /\ now' = now + d
        /\ log_data' = after_scenario_isaac(RecordExecTime(log_data, scenario, now'),
                                            scenario, isaac_start, now')
    /\ hookPc' = "feature"
    /\ UNCHANGED <<scenario, scenario_start_time, step_start, step_debug_info,
                   isaac_start, cur_step, executed, scenarios_run, dumped>>
    /\ UNCHANGED notLog

NewStepDebugInfo(step) ==
    [name |-> step.name, keyword |-> step.keyword, fail_info |-> EmptyDict]

before_step ==
    /\ hookPc = "scenario"
    /\ Len(executed) < MaxSteps
    /\ \E step \in Steps, d \in Ticks :
        /\ cur_step' = step
        /\ step_debug_info' = NewStepDebugInfo(step)
        /\ now' = now + d
        /\ step_start' = now'
    /\ hookPc' = "step"
    /\ UNCHANGED <<log_data, scenario, scenario_start_time, isaac_start,
                   executed, scenarios_run, dumped>>
    /\ UNCHANGED notLog

FinishedStepInfo(info, step, t) ==
    DictSet(DictSet(info, "exec_time", t - step_start), "status", step.status)

AppendClause_Front(ld, name, info) ==
    DictSet(ld, name, DictSet(ld[name], "clauses", <<info>> \o ld[name]["clauses"]))

AppendClause(ld, name, info) ==
    DictSet(ld, name, DictSet(ld[name], "clauses", Append(ld[name]["clauses"], info)))

after_step ==
    /\ hookPc = "step"
    /\ \E d \in Ticks :
        /\ now' = now + d
        /\ step_debug_info' = FinishedStepInfo(step_debug_info, cur_step, now')
        /\ log_data' = AppendClause(log_data, scenario, step_debug_info')
    /\ executed' = Append(executed, cur_step)
    /\ hookPc' = "scenario"
    /\ UNCHANGED <<scenario, scenario_start_time, step_start, isaac_start,
                   cur_step, scenarios_run, dumped>>
    /\ UNCHANGED notLog

after_feature ==
    /\ hookPc = "feature"
    /\ dumped' = <<log_data>>
    /\ hookPc' = "idle"
    /\ UNCHANGED <<log_data, scenario, scenario_start_time, step_start,
                   step_debug_info, isaac_start, now, cur_step, executed,
                   scenarios_run>>
    /\ UNCHANGED notLog

NextLog ==
    \/ before_feature
    \/ before_scenario
    \/ before_step
    \/ after_step
    \/ after_scenario
    \/ after_feature

\* --------------------------------------------------------------- before_all
NumModels == 9

GraphRef == "g"

ConfigKeys == {"use_livestream", "headless", "render", "width", "height",
               "hide_ui", "renderer", "time_step_sec", "model_graph"}

\* YAML values a config file may give a key
ValuesOf(k) ==
    CASE k = "use_livestream" -> {"True", "False", "1"}
      [] k = "headless"       -> {"True", "False"}
      [] k = "render"         -> {"True", "False"}
      [] k = "width"          -> {"640"}
      [] k = "height"         -> {"480"}
      [] k = "hide_ui"        -> {"True"}
      [] k = "renderer"       -> {"PathTracing"}
      [] k = "time_step_sec"  -> {"0.01"}
      [] k = "model_graph"    -> {"from-config"}

RECURSIVE ConfigsOver(_)
ConfigsOver(K) ==
    IF K = {} THEN {EmptyDict}
    ELSE LET k == CHOOSE x \in K : TRUE
             rest == ConfigsOver(K \ {k})
         IN rest \cup {DictSet(c, k, v) : c \in rest, v \in ValuesOf(k)}

Configs == ConfigsOver(ConfigKeys)

\* Python truthiness of a YAML scalar
Truthy(v) == v \notin {"False", "0", ""}

InitBeforeAll ==
    /\ baPc = "start"
    /\ ctx = EmptyDict
    /\ config = EmptyDict
    /\ g = {}
    /\ next_model = 1
    /\ parse_error = "none"
    /\ isaac_called = FALSE

\* for key, value in config.items(): setattr(context, key, value)
CopyConfig(c, cfg) == [k \in DOMAIN c \cup DOMAIN cfg |-> IF k \in DOMAIN cfg THEN cfg[k] ELSE c[k]]

\* read_config_file: a missing file fails the assert, bad YAML raises ValueError
read_config_file ==
    /\ baPc = "start"
    /\ \/ /\ \E cfg \in Configs :
                /\ config' = cfg
                /\ ctx' = CopyConfig(ctx, cfg)
          /\ baPc' = "parse"
       \/ /\ baPc' = "raised"
          /\ UNCHANGED <<config, ctx>>
    /\ UNCHANGED <<g, next_model, parse_error, isaac_called>>
    /\ UNCHANGED notBa

ParseOutcomes == {"ok", "JSONDecodeError", "OtherError"}

\* where before_all goes when g.parse raises
OnParseError(res) == IF res = "JSONDecodeError" THEN "exited" ELSE "raised"

\* one iteration of: for url, fmt in MODELS.items(): g.parse(url, format=fmt)
parse_model ==
    /\ baPc = "parse"
    /\ next_model <= NumModels
    /\ \E res \in ParseOutcomes :
        IF res = "ok"
        THEN /\ g' = g \cup {next_model}
             /\ next_model' = next_model + 1
             /\ UNCHANGED <<baPc, parse_error>>
        ELSE /\ parse_error' = res
             /\ baPc' = OnParseError(res)
             /\ UNCHANGED <<g, next_model>>
    /\ UNCHANGED <<ctx, config, isaac_called>>
    /\ UNCHANGED notBa

ApplyDefault_Overwrite(c, k, v) == DictSet(c, k, v)

\* setattr(context, k, getattr(context, k, v))
ApplyDefault(c, k, v) == IF k \in DOMAIN c THEN c ELSE DictSet(c, k, v)

BaseDefaults(c) ==
    ApplyDefault(ApplyDefault(ApplyDefault(c, "use_livestream", "False"),
                              "headless", "True"),
                 "render", "False")

LivestreamKeyDefaults(c) ==
    ApplyDefault(ApplyDefault(ApplyDefault(ApplyDefault(ApplyDefault(
    ApplyDefault(ApplyDefault(ApplyDefault(ApplyDefault(ApplyDefault(c,
        "width", "1280"), "height", "720"),
        "window_width", "1920"), "window_height", "1080"),
        "hide_ui", "False"), "renderer", "RayTracedLighting"),
        "display_options", "3286"), "draw_mouse", "True"),
        "protocol", "ws"), "enable_nginx", "False")

LivestreamDefaults(c) ==
    IF Truthy(c["use_livestream"]) THEN LivestreamKeyDefaults(c) ELSE c

\* the two asserts of livestream mode
LivestreamAsserts(c) ==
    Truthy(c["use_livestream"]) => (c["render"] = "True" /\ c["headless"] = "True")

\* context.model_graph = g, the defaults, the asserts, before_all_isaac
start_simulator ==
    /\ baPc = "parse"
    /\ next_model > NumModels
    /\ ctx' = LivestreamDefaults(BaseDefaults(DictSet(ctx, "model_graph", GraphRef)))
    /\ IF LivestreamAsserts(ctx')
       THEN baPc' = "isaac" /\ isaac_called' = TRUE
       ELSE baPc' = "raised" /\ UNCHANGED isaac_called
    /\ UNCHANGED <<config, g, next_model, parse_error>>
    /\ UNCHANGED notBa

NextBeforeAll ==
    \/ read_config_file
    \/ parse_model
    \/ start_simulator

\* -------------------------------------------------------- _get_unique_id_str
IdStrs == {"obj_", "bot_"}

HexChars == <<"0", "1", "2", "3", "4", "5", "6", "7", "8", "9",
              "a", "b", "c", "d", "e", "f">>

RECURSIVE Hex(_)
\* format(n, "x")
Hex(n) == IF n < 16 THEN HexChars[n + 1] ELSE Hex(n \div 16) \o HexChars[(n % 16) + 1]

\* f"{n:04x}": hexadecimal, zero-padded to at least four characters
Hex04(n) ==
    IF n < 16 THEN "000" \o Hex(n)
    ELSE IF n < 256 THEN "00" \o Hex(n)
    ELSE IF n < 4096 THEN "0" \o Hex(n)
    ELSE Hex(n)

RandintHigh == 65536

\* np.random.randint(65536), drawn here from the first RandRange values
RandomDraws == {r \in 0..(RandRange - 1) : r < RandintHigh}

InitId ==
    /\ idPc = "idle"
    /\ cache = {}
    /\ id_str = ""
    /\ max_iteration = 0
    /\ iter_count = 0
    /\ drawn = 0
    /\ returned = <<>>
    /\ outcome = "none"
    /\ cache_at_call = {}

\* entry of _get_unique_id_str: iter_count = 0
call_get_unique_id_str ==
    /\ idPc = "idle"
    /\ \E s \in IdStrs, m \in 0..MaxIteration :
        /\ id_str' = s
        /\ max_iteration' = m
    /\ iter_count' = 0
    /\ drawn' = 0
    /\ outcome' = "none"
    /\ cache_at_call' = cache
    /\ idPc' = "loop"
    /\ UNCHANGED <<cache, returned>>
    /\ UNCHANGED notId

\* if iter_count > max_iteration: raise RuntimeError
IterationsExhausted == iter_count > max_iteration

raise_unable_to_find ==
    /\ idPc = "loop"
    /\ IterationsExhausted
    /\ outcome' = "raised"
    /\ idPc' = "idle"
    /\ UNCHANGED <<cache, id_str, max_iteration, iter_count, drawn, returned,
                   cache_at_call>>
    /\ UNCHANGED notId

AddToCache_Forgotten(c, s) == c

\* _CACHED_ID_STRS.add(unique_str)
AddToCache(c, s) == c \cup {s}

\* one pass of the loop body: draw, test against the cache, add and return
draw_candidate ==
    /\ idPc = "loop"
    /\ ~IterationsExhausted
    /\ iter_count' = iter_count + 1
    /\ drawn' = drawn + 1
    /\ \E r \in RandomDraws :
        LET unique_str == id_str \o Hex04(r) IN
        IF unique_str \in cache
        THEN UNCHANGED <<cache, returned, outcome, idPc>>
        ELSE /\ cache' = AddToCache(cache, unique_str)
             /\ returned' = Append(returned, unique_str)
             /\ outcome' = "returned"
             /\ idPc' = "idle"
    /\ UNCHANGED <<id_str, max_iteration, cache_at_call>>
    /\ UNCHANGED notId

NextId ==
    \/ call_get_unique_id_str
    \/ raise_unable_to_find
    \/ draw_candidate

\* ---------------------------------------------------------------- save_frames
\* File names are the sequences of their characters' codes.
FramePrefix == <<102, 114, 97, 109, 101, 95>>   \* "frame_"
JpgSuffix == <<46, 106, 112, 103>>               \* ".jpg"

RECURSIVE Decimal(_)
\* str(i) as character codes
Decimal(i) == IF i < 10 THEN <<48 + i>> ELSE Decimal(i \div 10) \o <<48 + (i % 10)>>

RECURSIVE ZeroPad(_, _)
ZeroPad(d, width) == IF Len(d) >= width THEN d ELSE ZeroPad(<<48>> \o d, width)

\* f"frame_{i:05d}.jpg"
FrameFileName(i) == FramePrefix \o ZeroPad(Decimal(i), 5) \o JpgSuffix

Idle == <<>>

IdleWorkers == {w \in DOMAIN workers : workers[w] = Idle}

BusyWorkers == DOMAIN workers \ IdleWorkers

InitPool ==
    /\ poolPc = "idle"
    /\ n_frames = 0
    /\ threads = 1
    /\ submitted = 0
    /\ work_queue = <<>>
    /\ workers = <<>>
    /\ idle_semaphore = 0
    /\ out_dir = EmptyDict

\* save_frames is called: output_dir is created, the executor is built
call_save_frames ==
    /\ poolPc = "idle"
    /\ \E n \in 0..MaxFrames, t \in 1..MaxThreads :
        /\ n_frames' = n
        /\ threads' = t
    /\ poolPc' = "submitting"
    /\ UNCHANGED <<submitted, work_queue, workers, idle_semaphore, out_dir>>
    /\ UNCHANGED notPool

\* the executor starts a thread on submit unless a worker has reported
\* itself idle or max_workers threads already run
SpawnsThread == idle_semaphore = 0 /\ Len(workers) < threads

\* executor.submit(save_single_frame, frame, fn, output_dir) for frame i
submit_frame ==
    /\ poolPc = "submitting"
    /\ submitted < n_frames
    /\ work_queue' = Append(work_queue, submitted)
    /\ submitted' = submitted + 1
    /\ workers' = IF SpawnsThread THEN Append(workers, Idle) ELSE workers
    /\ idle_semaphore' = IF idle_semaphore > 0 THEN idle_semaphore - 1 ELSE 0
    /\ UNCHANGED <<poolPc, n_frames, threads, out_dir>>
    /\ UNCHANGED notPool

\* a worker takes the next queued write: imageio.imwrite opens the file
worker_take(w) ==
    /\ workers[w] = Idle
    /\ work_queue # <<>>
    /\ LET i == Head(work_queue) IN
        /\ workers' = [workers EXCEPT ![w] = <<i>>]
        /\ out_dir' = DictSet(out_dir, FrameFileName(i), [frame |-> i, state |-> "partial"])
    /\ work_queue' = Tail(work_queue)
    /\ UNCHANGED <<poolPc, n_frames, threads, submitted, idle_semaphore>>
    /\ UNCHANGED notPool

\* imageio.imwrite returns: the frame's file is complete
worker_finish(w) ==
    /\ workers[w] # Idle
    /\ LET i == workers[w][1] IN
        out_dir' = DictSet(out_dir, FrameFileName(i), [frame |-> i, state |-> "complete"])
    /\ workers' = [workers EXCEPT ![w] = Idle]
    /\ idle_semaphore' = idle_semaphore + 1
    /\ UNCHANGED <<poolPc, n_frames, threads, submitted, work_queue>>
    /\ UNCHANGED notPool

PoolDrained_NoWait == TRUE

\* ThreadPoolExecutor.__exit__: shutdown(wait=True) joins the workers, which
\* leave only when the queue is empty
PoolDrained == work_queue = <<>> /\ BusyWorkers = {}

return_save_frames ==
    /\ poolPc = "submitting"
    /\ submitted = n_frames
    /\ PoolDrained
    /\ poolPc' = "returned"
    /\ UNCHANGED <<n_frames, threads, submitted, work_queue, workers,
                   idle_semaphore, out_dir>>
    /\ UNCHANGED notPool

NextPool ==
    \/ call_save_frames
    \/ submit_frame
    \/ \E w \in DOMAIN workers : worker_take(w)
    \/ \E w \in DOMAIN workers : worker_finish(w)
    \/ return_save_frames

\* --------------------------------------------------- create_video_from_frames
\* what save_frames(frames, dir) leaves in dir (frames[i + 1] is frame i)
SaveFramesResult(dir, frames) ==
    LET written == {FrameFileName(i) : i \in 0..(Len(frames) - 1)} IN
    [f \in DOMAIN dir \cup written |->
        IF f \in written
        THEN frames[(CHOOSE i \in 0..(Len(frames) - 1) : FrameFileName(i) = f) + 1]
        ELSE dir[f]]

\* f.endswith(".jpg")
EndsWithJpg(f) ==
    /\ Len(f) >= Len(JpgSuffix)
    /\ SubSeq(f, Len(f) - Len(JpgSuffix) + 1, Len(f)) = JpgSuffix

\* a < b as Python compares str
StrLess(a, b) ==
    \E k \in 1..(Len(a) + 1) :
        /\ \A j \in 1..(k - 1) : j <= Len(b) /\ a[j] = b[j]
        /\ k <= Len(b)
        /\ (k <= Len(a) => a[k] < b[k])

RECURSIVE SortedNames(_)
\* the names of S as list.sort() orders them
SortedNames(S) ==
    IF S = {} THEN <<>>
    ELSE LET first == CHOOSE a \in S : \A b \in S \ {a} : StrLess(a, b)
         IN <<first>> \o SortedNames(S \ {first})

\* frame_files: [f for f in os.listdir(frames_dir) if f.endswith(".jpg")], sorted
FrameFiles(dir) == SortedNames({f \in DOMAIN dir : EndsWithJpg(f)})

\* os.remove of every listed frame file
RemoveFiles(dir, names) == [f \in DOMAIN dir \ Range(names) |-> dir[f]]

\* f"{get_valid_var_name(scenario_name)}-{camera_name}.mp4" under vids/
VideoPath(k) == "vids/scenario_" \o ToString(k) \o "-cam.mp4"

InitVideo ==
    /\ vidPc = "idle"
    /\ scen_no = 0
    /\ cur_frames = <<>>
    /\ frames_dir = EmptyDict
    /\ video = <<>>
    /\ had_frames = FALSE
    /\ cleanup_frames = FALSE
    /\ dir_before = EmptyDict
    /\ vid_ret = [kind |-> "none", value |-> ""]

\* a scenario ends: save_frames(frames, frames/<camera>) with its n frames
scenario_save_frames ==
    /\ vidPc \in {"idle", "created"}
    /\ scen_no < MaxVideoScenarios
    /\ scen_no' = scen_no + 1
    /\ \E n \in 0..MaxFrames :
        cur_frames' = [i \in 1..n |-> [scenario |-> scen_no', index |-> i - 1]]
    /\ frames_dir' = SaveFramesResult(frames_dir, cur_frames')
    /\ vidPc' = "saved"
    /\ UNCHANGED <<video, had_frames, cleanup_frames, dir_before, vid_ret>>
    /\ UNCHANGED notVid

create_video_from_frames ==
    /\ vidPc = "saved"
    /\ \E cleanup \in BOOLEAN :
        LET frame_files == FrameFiles(frames_dir) IN
        /\ cleanup_frames' = cleanup
        /\ had_frames' = (frame_files # <<>>)
        /\ dir_before' = frames_dir
        /\ IF frame_files = <<>>
           THEN /\ vid_ret' = [kind |-> "raise", value |-> "ValueError"]
                /\ video' = <<>>
                /\ UNCHANGED frames_dir
           ELSE /\ video' = [i \in 1..Len(frame_files) |-> frames_dir[frame_files[i]]]
                /\ frames_dir' = IF cleanup THEN RemoveFiles(frames_dir, frame_files)
                                  ELSE frames_dir
                /\ vid_ret' = [kind |-> "return", value |-> VideoPath(scen_no)]
    /\ vidPc' = "created"
    /\ UNCHANGED <<scen_no, cur_frames>>
    /\ UNCHANGED notVid

NextVideo ==
    \/ scenario_save_frames
    \/ create_video_from_frames

\* ------------------------------------------------------------ specifications
Init == InitLog /\ InitBeforeAll /\ InitId /\ InitPool /\ InitVideo

SpecLog == Init /\ [][NextLog]_vars

SpecBeforeAll == Init /\ [][NextBeforeAll]_vars

SpecId == Init /\ [][NextId]_vars

SpecPool == Init /\ [][NextPool]_vars

SpecVideo == Init /\ [][NextVideo]_vars

\* ------------------------------------------------------------ log claims
LogKeys == {"clauses", "start_time_unix", "end_time_unix", "exec_time",
            "behave_exec_time"}

ClauseKeys == {"name", "keyword", "exec_time", "status", "fail_info"}

ClauseOf(info, step) ==
    /\ DOMAIN info = ClauseKeys
    /\ info["name"] = step.name
    /\ info["keyword"] = step.keyword
    /\ info["status"] = step.status
    /\ DOMAIN info["fail_info"] = {}

InScenarioLog ==
    \/ hookPc \in {"scenario", "step"}
    \/ hookPc = "feature" /\ Len(scenarios_run) > 0

ClausesMatchExecuted ==
    InScenarioLog =>
        LET cl == log_data[scenario]["clauses"] IN
        /\ Len(cl) = Len(executed)
        /\ \A i \in 1..Len(cl) : ClauseOf(cl[i], executed[i])

StepAddsOneClause ==
    (hookPc = "step" /\ hookPc' = "scenario") =>
        /\ DOMAIN log_data' = DOMAIN log_data
        /\ \A n \in DOMAIN log_data \ {scenario} : log_data'[n] = log_data[n]
        /\ Len(log_data'[scenario]["clauses"]) = Len(log_data[scenario]["clauses"]) + 1
        /\ SubSeq(log_data'[scenario]["clauses"], 1, Len(log_data[scenario]["clauses"]))
                = log_data[scenario]["clauses"]
        /\ ClauseOf(log_data'[scenario]["clauses"][Len(log_data'[scenario]["clauses"])],
                    cur_step)

\* C2: every executed step (before_step, after_step) of scenario S appends
\* exactly one entry with the fields name, keyword, exec_time, status and
\* fail_info of that step to log_data[S]["clauses"], the i-th entry is the
\* i-th executed step's, and no other scenario's list changes.
C2_OneClausePerStep == []ClausesMatchExecuted /\ [][StepAddsOneClause]_vars

C2_Witness ==
    /\ hookPc = "feature"
    /\ Len(executed) = 2
    /\ executed[1] # executed[2]
    /\ DOMAIN log_data = ScenarioNames

Grows ==
    \A n \in DOMAIN log_data :
        /\ n \in DOMAIN log_data'
        /\ DOMAIN log_data[n] \subseteq DOMAIN log_data'[n]
        /\ Len(log_data[n]["clauses"]) <= Len(log_data'[n]["clauses"])
        /\ \A i \in 1..Len(log_data[n]["clauses"]) :
                log_data'[n]["clauses"][i] = log_data[n]["clauses"][i]

\* C3: between before_feature and after_feature no hook removes a scenario
\* key, a recorded clause or a recorded field of an entry of log_data.
C3_LogOnlyGrows == [][hookPc # "idle" => Grows]_vars


\* ------------------------------------------------------- before_all claims
\* C4: a parse error of any kind on any listed model terminates the
\* process at once: context.model_graph is not set to the graph and
\* before_all_isaac is never called.
C4_AnyParseErrorExits ==
    parse_error # "none" =>
        /\ baPc = "exited"
        /\ ~isaac_called
        /\ ("model_graph" \in DOMAIN ctx => ctx["model_graph"] # GraphRef)

DefaultOf(k) ==
    CASE k = "use_livestream" -> "False"
      [] k = "headless"       -> "True"
      [] k = "render"         -> "False"
      [] k = "width"          -> "1280"
      [] k = "height"         -> "720"
      [] k = "hide_ui"        -> "False"
      [] k = "renderer"       -> "RayTracedLighting"

AlwaysDefaulted == {"use_livestream", "headless", "render"}

LivestreamDefaulted == {"width", "height", "hide_ui", "renderer"}

ClaimedDefaulted == AlwaysDefaulted \cup LivestreamDefaulted \cup {"time_step_sec"}

\* C5 as stated: at the simulator startup call every config key is on the
\* context with the config's value, and every omitted key among hide_ui,
\* time_step_sec, headless, render, use_livestream, width, height and
\* renderer is on the context with its hardcoded default.
C5_AllOmittedKeysDefaulted ==
    baPc = "isaac" =>
        /\ \A k \in DOMAIN config : k \in DOMAIN ctx /\ ctx[k] = config[k]
        /\ \A k \in ClaimedDefaulted \ DOMAIN config : k \in DOMAIN ctx

\* C5 amended: at the simulator startup call every config key other than
\* model_graph has the config's value; omitted use_livestream, headless and
\* render have their defaults; omitted width, height, hide_ui and renderer
\* have their defaults when use_livestream is truthy and are absent
\* otherwise; an omitted time_step_sec is absent.
C5_DefaultsAsCoded ==
    baPc = "isaac" =>
        /\ \A k \in DOMAIN config \ {"model_graph"} :
                k \in DOMAIN ctx /\ ctx[k] = config[k]
        /\ ctx["model_graph"] = GraphRef
        /\ \A k \in AlwaysDefaulted \ DOMAIN config :
                k \in DOMAIN ctx /\ ctx[k] = DefaultOf(k)
        /\ \A k \in LivestreamDefaulted \ DOMAIN config :
                IF Truthy(ctx["use_livestream"])
                THEN k \in DOMAIN ctx /\ ctx[k] = DefaultOf(k)
                ELSE k \notin DOMAIN ctx
        /\ "time_step_sec" \notin DOMAIN config => "time_step_sec" \notin DOMAIN ctx

C5_Witness ==
    /\ baPc = "isaac"
    /\ DOMAIN config = {"use_livestream", "render", "width"}
    /\ Truthy(config["use_livestream"])
    /\ ctx["height"] = "720"

\* ------------------------------------------------- _get_unique_id_str claims
\* C6: a call draws and tests at most max_iteration candidate strings, and
\* raises RuntimeError once that many have collided with the cache.
C6_AtMostMaxIterationDraws ==
    /\ drawn <= max_iteration
    /\ (outcome = "raised" => drawn = max_iteration)

ReturnedAreCached ==
    /\ \A i, j \in 1..Len(returned) : i # j => returned[i] # returned[j]
    /\ cache = Range(returned)
    /\ outcome = "raised" => cache = cache_at_call

\* C9: the strings returned by the successful calls are pairwise distinct,
\* _CACHED_ID_STRS is exactly the set of strings returned so far and only
\* grows, and a call that raises RuntimeError leaves it unchanged.
C9_CacheIsReturnedSet == []ReturnedAreCached /\ [][cache \subseteq cache']_vars

C9_Witness ==
    /\ outcome = "raised"
    /\ Len(returned) >= 3
    /\ \E i, j \in 1..Len(returned) :
            returned[i] = "obj_0000" /\ returned[j] = "bot_0001"

C7_PathOrNone ==
    vidPc = "created" =>
        IF had_frames
        THEN vid_ret = [kind |-> "return", value |-> VideoPath(scen_no)]
        ELSE vid_ret = [kind |-> "return", value |-> "None"]

\* C10: the video written for a scenario holds exactly the frames passed to
\* that scenario's save_frames, each once, in index order; afterwards the
\* frames directory holds no .jpg file with cleanup_frames=True and is
\* unchanged with cleanup_frames=False.
C10_VideoIsScenarioFrames ==
    (vidPc = "created" /\ vid_ret.kind = "return") =>
        /\ video = cur_frames
        /\ cleanup_frames => FrameFiles(frames_dir) = <<>>
        /\ ~cleanup_frames => frames_dir = dir_before

====
